---- MODULE Spec2Model ----
(***************************************************************************)
(* A model of tools/bench.py: the metric extractor (parse_mean_std), the   *)
(* variant runner (run_variant), the record aggregation and the result     *)
(* store with the orchestrating loop of main().                            *)
(*                                                                         *)
(* Texts are sequences of tokens: what the regular expressions of bench.py *)
(* can tell apart in a program's output is a mean report, a std report,    *)
(* a PERF_START: marker and a PERF_END: marker.                            *)
(* Means are counted in units of 1e-9 seconds so that eps is one unit.     *)
(***************************************************************************)
EXTENDS Integers, Sequences, FiniteSets, TLC

VARIABLES
    tasks,      \* main: the selected task catalog, in processing order
    disk,       \* the content of RESULTS_PATH
    disk0,      \* history: the content of RESULTS_PATH when the run began
    results,    \* main: the in-memory store (empty until load_results has run)
    pc,         \* main: the position of the run
    idx,        \* main: 1-based index in tasks of the task being processed
    out,        \* main: what run_variant returned for each variant of the current
                \* task, with the command it handed to run_cmd
    upserted,   \* history: the records upsert_result was called with, in order
    nread,      \* history: calls of load_results
    nwritten,   \* history: calls of save_results
    text,       \* the argument of parse_mean_std
    parsed      \* its return value (the empty tuple before the call)

vars == <<tasks, disk, disk0, results, pc, idx, out, upserted, nread, nwritten,
          text, parsed>>

\* ---------------------------------------------------------------- bounds
MaxTextLen == 4     \* tokens in a text given to parse_mean_std
MaxSegments == 2    \* blocks and stretches of reports in a longer text
MaxTasks == 2       \* tasks in the selected catalog
MaxStore == 2       \* records in the backing file when the run begins
MaxMean == 2        \* the largest mean a command reports
MaxSteps == 3       \* shell steps in a stored run_human template

\* ---------------------------------------------------------------- values
\* An optional value is a tuple of at most one element: None is Python's None.
None == <<>>
Some(x) == <<x>>
Val(o) == o[1]

Min(S) == CHOOSE x \in S : \A y \in S : x <= y
Max(S) == CHOOSE x \in S : \A y \in S : x >= y
Last(s) == s[Len(s)]

RECURSIVE SeqsUpTo(_, _)
SeqsUpTo(S, n) ==
    IF n = 0 THEN {<<>>}
    ELSE LET shorter == SeqsUpTo(S, n - 1)
         IN shorter \cup {Append(s, x) : s \in {t \in shorter : Len(t) = n - 1}, x \in S}

\* ------------------------------------------------------- MetricExtractor
\* A numeric literal matched by FLOAT: mantissa and decimal exponent.
Lit(m, e) == [m |-> m, e |-> e]

RECURSIVE Pow10(_)
Pow10(e) == IF e = 0 THEN 1 ELSE 10 * Pow10(e - 1)

\* float(literal)
Float(l) == l.m * Pow10(l.e)

MeanTok(l) == [k |-> "mean", lit |-> l]
StdTok(l) == [k |-> "std", lit |-> l]
StartTok == [k |-> "start", lit |-> Lit(0, 0)]
EndTok == [k |-> "end", lit |-> Lit(0, 0)]

IsMean(t) == t.k = "mean"
IsStd(t) == t.k = "std"

\* RE_MEAN.findall / RE_STD.findall: the captured literals, in order
RE_MEAN_findall(s) ==
    LET hits == SelectSeq(s, IsMean) IN [i \in 1..Len(hits) |-> hits[i].lit]
RE_STD_findall(s) ==
    LET hits == SelectSeq(s, IsStd) IN [i \in 1..Len(hits) |-> hits[i].lit]

\* RE_PERF_BLOCK.findall from position i: non-overlapping, leftmost, non-greedy.
\* A match starts at the first PERF_START: at or after i and ends at the first
\* PERF_END: after it; the scan goes on after that PERF_END:.
RECURSIVE RE_PERF_BLOCK_findall(_, _)
RE_PERF_BLOCK_findall(s, i) ==
    LET starts == {a \in i..Len(s) : s[a].k = "start"}
    IN IF starts = {} THEN <<>>
       ELSE LET a == Min(starts)
                ends == {b \in (a + 1)..Len(s) : s[b].k = "end"}
            IN IF ends = {} THEN <<>>
               ELSE LET b == Min(ends)
                    IN <<SubSeq(s, a + 1, b - 1)>> \o RE_PERF_BLOCK_findall(s, b + 1)

\* a faulty extract_scope: blocks[0] in place of blocks[-1]
extract_scope_first(s) ==
    IF s = <<>> THEN <<>>
    ELSE LET blocks == RE_PERF_BLOCK_findall(s, 1)
         IN IF blocks # <<>> THEN blocks[1] ELSE s

extract_scope(s) ==
    IF s = <<>> THEN <<>>
    ELSE LET blocks == RE_PERF_BLOCK_findall(s, 1)
         IN IF blocks # <<>> THEN Last(blocks) ELSE s

parse_mean_std(s) ==
    LET scope == extract_scope(s)
        means0 == RE_MEAN_findall(scope)
        stds0 == RE_STD_findall(scope)
        fallback == means0 = <<>> \/ stds0 = <<>>
        means == IF fallback THEN RE_MEAN_findall(s) ELSE means0
        stds == IF fallback THEN RE_STD_findall(s) ELSE stds0
    IN IF means = <<>> \/ stds = <<>> THEN <<None, None>>
       ELSE <<Some(Float(Last(means))), Some(Float(Last(stds)))>>

\* The tokens of the texts the extractor is checked on.
Tokens ==
    {MeanTok(Lit(1, 0)), MeanTok(Lit(2, 1)), StdTok(Lit(3, 0)), StdTok(Lit(4, 1)),
     StartTok, EndTok}

\* A segment of output: reports outside a block, a whole block, a lone marker.
Reports == SeqsUpTo({t \in Tokens : t.k \in {"mean", "std"}}, 2)
Segments ==
    Reports \cup {<<StartTok>> \o r \o <<EndTok>> : r \in Reports}
            \cup {<<StartTok>>, <<EndTok>>}

RECURSIVE Joined(_)
Joined(n) ==
    IF n = 0 THEN {<<>>} ELSE {s \o g : s \in Joined(n - 1), g \in Segments}

\* every short text, and the texts made of a few segments
Texts == SeqsUpTo(Tokens, MaxTextLen) \cup Joined(MaxSegments)

\* --------------------------------------------------------- VariantRunner
\* A command template is the sequence of the shell steps it joins with " && ":
\*   chmod  = "chmod +x /perf.sh"        perf = "/perf.sh"
\*   apply  = "git apply /tmp/patch.diff" applyq = "git apply -q /tmp/patch.diff"
\*   work   = "python /tmp/workload.py"   echo = "echo '... {id} ...'"
\*   brace  = a step with a replacement field str.format cannot fill,
\*            such as "awk '{print $2}'"
Steps == {"chmod", "apply", "applyq", "perf", "work", "brace"}

Variants == {"base", "human", "llm"}

\* str.upper() on the words the model uses
Upper(w) ==
    CASE w = "placeholder" -> "PLACEHOLDER"
      [] w = "Placeholder" -> "PLACEHOLDER"
      [] w = "pending" -> "PENDING"
      [] w = "coming_soon" -> "COMING_SOON"
      [] w = "None" -> "NONE"
      [] w = "repo/img" -> "REPO/IMG"
      [] w = "complete" -> "COMPLETE"
      [] OTHER -> w

\* An environment identifier is a string, kept as the sequence of its words.
\* str(x).upper().startswith("PLACEHOLDER")
upper_startswith_PLACEHOLDER(str) == str # <<>> /\ Upper(str[1]) = "PLACEHOLDER"

\* the template run_variant's human branch builds
desired == <<"chmod", "apply", "perf">>

\* "/perf.sh && git apply" in tmpl
has_perf_then_apply(tmpl) ==
    \E i \in 1..(Len(tmpl) - 1) :
        tmpl[i] \in {"chmod", "perf"} /\ tmpl[i + 1] \in {"apply", "applyq"}

\* "git apply -q" in tmpl
has_apply_q(tmpl) == \E i \in 1..Len(tmpl) : tmpl[i] = "applyq"

\* not tmpl: None or the empty string
not_tmpl(tmpl) == tmpl = None \/ Val(tmpl) = <<>>

\* a faulty guard: the "git apply -q" test is left out
human_template_no_q(tmpl) ==
    IF not_tmpl(tmpl) \/ has_perf_then_apply(Val(tmpl)) THEN Some(desired) ELSE tmpl

\* run_variant, human branch: the template after the guard
human_template(tmpl) ==
    IF not_tmpl(tmpl) \/ has_perf_then_apply(Val(tmpl)) \/ has_apply_q(Val(tmpl))
    THEN Some(desired)
    ELSE tmpl

\* run_variant, llm branch: not img or str(img).upper().startswith("PLACEHOLDER")
llm_skipped(img) ==
    img = None \/ Val(img) = <<>> \/ upper_startswith_PLACEHOLDER(Val(img))

\* render: str.format raises on a replacement field that is none of id,
\* base_image, human_image, llm_image
render_raises(tmpl) == \E i \in 1..Len(tmpl) : tmpl[i] = "brace"
render(tmpl, id) == [steps |-> tmpl, id |-> id]

Outcome(mean, std, info, cmd, raised) ==
    [mean |-> mean, std |-> std, info |-> info, cmd |-> cmd, raised |-> raised]

missing_info(variant) ==
    CASE variant = "base" -> "missing command template for base"
      [] variant = "human" -> "missing command template for human"
      [] variant = "llm" -> "missing command template for llm"

\* run_variant(task, variant, workload_py): the outcome, the command handed to
\* run_cmd (None when nothing was executed), and whether an exception escaped.
\* run_cmd's output is what the task's environment prints for that variant.
run_variant(task, variant) ==
    LET stored == CASE variant = "base" -> task.run_base
                    [] variant = "human" -> task.run_human
                    [] variant = "llm" -> task.run_llm
        tmpl == IF variant = "human" THEN human_template(stored) ELSE stored
    IN IF variant = "llm" /\ llm_skipped(task.llm_image)
       THEN Outcome(None, None, "skipped (placeholder)", None, FALSE)
       ELSE IF not_tmpl(tmpl)
       THEN Outcome(None, None, missing_info(variant), None, FALSE)
       ELSE IF render_raises(Val(tmpl))
       THEN Outcome(None, None, "KeyError", None, TRUE)
       ELSE LET cmd == render(Val(tmpl), task.id)
                ms == parse_mean_std(task.prints[variant])
            IN IF ms[1] = None \/ ms[2] = None
               THEN Outcome(None, None, "parse failed", Some(cmd), FALSE)
               ELSE Outcome(ms[1], ms[2], "OK", Some(cmd), FALSE)

\* -------------------------------------------------------- ResultAggregator
\* eps of the llm_better comparison, in the unit of the means
Eps == 1

\* a / b on floats: ZeroDivisionError when b = 0, else the exact quotient
Div(a, b) == IF b = 0 THEN [err |-> TRUE, num |-> a, den |-> b]
             ELSE [err |-> FALSE, num |-> a, den |-> b]

\* {"mean": m, "std": s} if m is not None else None
metric(o) == IF o.mean # None THEN Some([mean |-> Val(o.mean), std |-> Val(o.std)])
             ELSE None

\* rec[field]["mean"] if rec[field] else None
mean_of(m) == IF m # None THEN Some(Val(m).mean) ELSE None

\* calc_impr: (after_mean / before_mean - 1) * 100.0, kept as an exact quotient;
\* an exception inside is caught and gives None
calc_impr(after_mean, before_mean) ==
    IF after_mean = None \/ before_mean = None \/ Val(before_mean) = 0 THEN None
    ELSE LET q == Div((Val(after_mean) - Val(before_mean)) * 100, Val(before_mean))
         IN IF q.err THEN None ELSE Some(q)

\* a faulty guard: the after mean, the divisor, is not tested
speedup_guard_before_only(before, after) ==
    before # None /\ after # None /\ Val(before).mean # 0

\* the condition of the speedup_* conditional expressions
speedup_guard(before, after) ==
    before # None /\ after # None /\ Val(before).mean # 0 /\ Val(after).mean # 0

\* rec["before"]["mean"] / rec[after]["mean"] if <guard> else None
speedup(before, after) ==
    IF speedup_guard(before, after)
    THEN Some(Div(Val(before).mean, Val(after).mean))
    ELSE None

\* a faulty classification: the status test comes before the comparison of the means
llm_better_status_first(after_human, after_llm, status_llm, llm_image, prior) ==
    LET status == IF status_llm = None THEN "" ELSE Val(status_llm)
        image == IF llm_image = None THEN <<>> ELSE Val(llm_image)
    IN IF Upper(status) \in {"COMING_SOON", "PENDING"}
          \/ upper_startswith_PLACEHOLDER(image)
       THEN "COMING_SOON"
       ELSE IF after_human # None /\ after_llm # None
       THEN LET hm == Val(after_human).mean
                lm == Val(after_llm).mean
            IN IF lm + Eps < hm THEN "YES"
               ELSE IF hm + Eps < lm THEN "NO"
               ELSE "TIE"
       ELSE IF prior = None THEN "UNKNOWN" ELSE Val(prior)

\* main, "LLM better?": rec["comparison"]["llm_better"] after the if/elif/else
llm_better(after_human, after_llm, status_llm, llm_image, prior) ==
    LET status == IF status_llm = None THEN "" ELSE Val(status_llm)
        image == IF llm_image = None THEN <<>> ELSE Val(llm_image)
    IN IF after_human # None /\ after_llm # None
       THEN LET hm == Val(after_human).mean
                lm == Val(after_llm).mean
            IN IF lm + Eps < hm THEN "YES"
               ELSE IF hm + Eps < lm THEN "NO"
               ELSE "TIE"
       ELSE IF Upper(status) \in {"COMING_SOON", "PENDING"}
               \/ upper_startswith_PLACEHOLDER(image)
       THEN "COMING_SOON"
       ELSE IF prior = None THEN "UNKNOWN" ELSE Val(prior)

\* main: the record built from the three outcomes of task t (stats, a constant,
\* is left out)
build_record(t, o, now) ==
    LET before == metric(o["base"])
        after_human == metric(o["human"])
        after_llm == metric(o["llm"])
    IN [id |-> t.id,
        before |-> before,
        after_human |-> after_human,
        after_llm |-> after_llm,
        status_llm |-> t.status_llm,
        llm_better |-> llm_better(after_human, after_llm, t.status_llm,
                                  t.llm_image, t.llm_better),
        human_improvement |-> calc_impr(mean_of(after_human), mean_of(before)),
        LLM_improvement |-> calc_impr(mean_of(after_llm), mean_of(before)),
        speedup_human |-> speedup(before, after_human),
        speedup_llm |-> speedup(before, after_llm),
        updated_at |-> now]

\* an uncaught ZeroDivisionError while the record is built
build_raises(rec) ==
    \/ rec.speedup_human # None /\ Val(rec.speedup_human).err
    \/ rec.speedup_llm # None /\ Val(rec.speedup_llm).err

\* ------------------------------------------------------------ ResultStore
RECURSIVE first_index(_, _, _)
first_index(all_results, id, i) ==
    IF i > Len(all_results) THEN 0
    ELSE IF all_results[i].id = id THEN i
    ELSE first_index(all_results, id, i + 1)

\* a faulty upsert_result: no search, always appends
upsert_result_append(all_results, rec) == Append(all_results, rec)

\* a faulty upsert_result: the replaced record moves to the end
upsert_result_move(all_results, rec) ==
    LET i == first_index(all_results, rec.id, 1)
    IN IF i # 0
       THEN Append(SubSeq(all_results, 1, i - 1)
                   \o SubSeq(all_results, i + 1, Len(all_results)), rec)
       ELSE Append(all_results, rec)

\* upsert_result: the list after the call
upsert_result(all_results, rec) ==
    LET i == first_index(all_results, rec.id, 1)
    IN IF i # 0 THEN [all_results EXCEPT ![i] = rec]
       ELSE Append(all_results, rec)

\* The backing file: missing, unparsable, or the JSON list save_results wrote.
File(kind, recs) == [kind |-> kind, recs |-> recs]

\* a faulty load_results: the file is ignored
load_results_empty(d) == <<>>

\* load_results: the file's list, [] when it is missing or json.load raises
load_results(d) == IF d.kind = "json" THEN d.recs ELSE <<>>

\* a faulty main: the early return on an empty selection is left out
no_tasks_never(ts) == FALSE

\* main: "if not tasks"
no_tasks(ts) == ts = <<>>

\* ------------------------------------------------------------------ tasks
Task(id, blank, run_base, run_human, run_llm, llm_image, status_llm, prior, prints) ==
    [id |-> id, blank |-> blank, run_base |-> run_base, run_human |-> run_human,
     run_llm |-> run_llm, llm_image |-> llm_image, status_llm |-> status_llm,
     llm_better |-> prior, prints |-> prints]

\* what a benchmark prints: a mean and a std, or nothing the extractor recognises
Report(m) == <<MeanTok(Lit(m, 0)), StdTok(Lit(1, 0))>>
Outputs == {<<>>} \cup {Report(m) : m \in 0..MaxMean}

Prints(b, h, l) == [v \in Variants |-> CASE v = "base" -> b [] v = "human" -> h [] v = "llm" -> l]

\* a task as csv_to_yaml.py writes it, with what its commands print
DefaultTask(id, blank, run_base, human_prints) ==
    Task(id, blank, run_base, Some(desired), Some(<<"work">>), Some(<<"PLACEHOLDER">>),
         Some("COMING_SOON"), Some("COMING_SOON"),
         Prints(Report(2), human_prints, <<>>))

NotRun == Outcome(None, None, "", None, FALSE)
NoOutcomes == [v \in Variants |-> NotRun]

\* the record main builds for task t
record_of(t, now) == build_record(t, [v \in Variants |-> run_variant(t, v)], now)

\* ------------------------------------------------------------- the run
\* main up to "if not tasks: return"
NoTasks ==
    /\ pc = "start"
    /\ no_tasks(tasks)
    /\ pc' = "done"
    /\ UNCHANGED <<tasks, disk, disk0, results, idx, out, upserted, nread, nwritten,
                   text, parsed>>

\* results = load_results()
Load ==
    /\ pc = "start"
    /\ ~no_tasks(tasks)
    /\ results' = load_results(disk)
    /\ nread' = nread + 1
    /\ idx' = 1
    /\ pc' = "task"
    /\ UNCHANGED <<tasks, disk, disk0, out, upserted, nwritten, text, parsed>>

\* the loop body for a task whose workload.code is blank
SkipBlank ==
    /\ pc = "task"
    /\ idx <= Len(tasks)
    /\ tasks[idx].blank
    /\ idx' = idx + 1
    /\ UNCHANGED <<tasks, disk, disk0, results, pc, out, upserted, nread, nwritten,
                   text, parsed>>

\* one call of run_variant from main; an exception it raises ends the run
Run(variant, before, next) ==
    LET o == run_variant(tasks[idx], variant)
    IN /\ out' = [before EXCEPT ![variant] = o]
       /\ pc' = IF o.raised THEN "aborted" ELSE next
       /\ UNCHANGED <<tasks, disk, disk0, results, idx, upserted, nread, nwritten,
                      text, parsed>>

RunBase ==
    /\ pc = "task"
    /\ idx <= Len(tasks)
    /\ ~tasks[idx].blank
    /\ Run("base", NoOutcomes, "human")

RunHuman ==
    /\ pc = "human"
    /\ Run("human", out, "llm")

RunLlm ==
    /\ pc = "llm"
    /\ Run("llm", out, "agg")

\* the record is built and upserted
Aggregate ==
    /\ pc = "agg"
    /\ LET rec == build_record(tasks[idx], out, "now")
       IN IF build_raises(rec)
          THEN /\ pc' = "aborted"
               /\ UNCHANGED <<results, upserted, idx>>
          ELSE /\ results' = upsert_result(results, rec)
               /\ upserted' = Append(upserted, rec)
               /\ idx' = idx + 1
               /\ pc' = "task"
    /\ UNCHANGED <<tasks, disk, disk0, out, nread, nwritten, text, parsed>>

\* save_results: open(RESULTS_PATH, "w") truncates the file
SaveOpen ==
    /\ pc = "task"
    /\ idx > Len(tasks)
    /\ disk' = File("unparsable", <<>>)
    /\ nwritten' = nwritten + 1
    /\ pc' = "dump"
    /\ UNCHANGED <<tasks, disk0, results, idx, out, upserted, nread, text, parsed>>

\* save_results: json.dump writes the list
SaveDump ==
    /\ pc = "dump"
    /\ disk' = File("json", results)
    /\ pc' = "done"
    /\ UNCHANGED <<tasks, disk0, results, idx, out, upserted, nread, nwritten,
                   text, parsed>>

\* the process is interrupted (a signal, a kill) between two steps
Interrupt ==
    /\ pc \in {"start", "task", "human", "llm", "agg", "dump"}
    /\ pc' = "interrupted"
    /\ UNCHANGED <<tasks, disk, disk0, results, idx, out, upserted, nread, nwritten,
                   text, parsed>>

Next ==
    \/ NoTasks
    \/ Load
    \/ SkipBlank
    \/ RunBase
    \/ RunHuman
    \/ RunLlm
    \/ Aggregate
    \/ SaveOpen
    \/ SaveDump
    \/ Interrupt

\* the state of a run that starts on catalog ts with file d
Start(ts, d) ==
    /\ tasks = ts
    /\ disk = d
    /\ disk0 = d
    /\ results = <<>>
    /\ pc = "start"
    /\ idx = 0
    /\ out = NoOutcomes
    /\ upserted = <<>>
    /\ nread = 0
    /\ nwritten = 0
    /\ text = <<>>
    /\ parsed = <<>>

\* --- the store and the loop: catalogs of several tasks, files of earlier runs
TaskIds == {"a", "b"}
StoreIds == {"a", "b", "c"}

CatalogTasks ==
    {DefaultTask(id, FALSE, Some(<<"work">>), h) : id \in TaskIds, h \in {Report(1), <<>>}}
    \cup {DefaultTask(id, TRUE, Some(<<"work">>), Report(1)) : id \in TaskIds}
    \cup {DefaultTask(id, FALSE, Some(<<"brace">>), Report(1)) : id \in TaskIds}

Catalogs == SeqsUpTo(CatalogTasks, MaxTasks)

\* records an earlier run left in the file
StoreRecords ==
    {record_of(DefaultTask(id, FALSE, Some(<<"work">>), h), "old") :
        id \in StoreIds, h \in {Report(1), <<>>}}

distinct_ids(recs) ==
    \A i, j \in 1..Len(recs) : recs[i].id = recs[j].id => i = j

Files ==
    {File("missing", <<>>), File("unparsable", <<>>)}
    \cup {File("json", recs) :
            recs \in {l \in SeqsUpTo(StoreRecords, MaxStore) : distinct_ids(l)}}

Init == \E ts \in Catalogs, d \in Files : Start(ts, d)

Spec == Init /\ [][Next]_vars

\* --- one task: every LLM environment, status, prior classification and outcome
Images ==
    {None, Some(<<>>), Some(<<"PLACEHOLDER">>), Some(<<"placeholder", "-v2">>),
     Some(<<"repo/img">>)}
Statuses == {None, Some("COMING_SOON"), Some("pending"), Some("complete")}
Priors == {None, Some("NO"), Some("COMING_SOON")}

WideTasks ==
    {Task("a", FALSE, Some(<<"work">>), Some(desired), tl, img, st, pr, Prints(b, h, l)) :
        tl \in {None, Some(<<"work">>)}, img \in Images, st \in Statuses, pr \in Priors,
        b \in Outputs, h \in Outputs, l \in Outputs}
    \cup {DefaultTask("a", TRUE, Some(<<"work">>), Report(1))}

InitTask ==
    \E ts \in {<<>>} \cup {<<t>> : t \in WideTasks} : Start(ts, File("missing", <<>>))

SpecTask == InitTask /\ [][Next]_vars

\* --- one task: every stored template of the human and base variants
HumanTemplates ==
    {None, Some(desired)} \cup {Some(t) : t \in SeqsUpTo(Steps, MaxSteps)}

CmdTasks ==
    {Task("a", FALSE, tb, th, Some(<<"work">>), Some(<<"repo/img">>), Some("complete"),
          None, Prints(Report(2), h, Report(1))) :
        tb \in {None, Some(<<"work">>)}, th \in HumanTemplates, h \in Outputs}
    \cup {DefaultTask("a", TRUE, Some(<<"work">>), Report(1))}

InitCmd ==
    \E ts \in {<<>>} \cup {<<t>> : t \in CmdTasks} : Start(ts, File("missing", <<>>))

SpecCmd == InitCmd /\ [][Next]_vars

\* --- the extractor alone
Parse ==
    /\ pc = "parse"
    /\ parsed' = parse_mean_std(text)
    /\ pc' = "parsed"
    /\ UNCHANGED <<tasks, disk, disk0, results, idx, out, upserted, nread, nwritten,
                   text>>

InitParse ==
    /\ text \in Texts
    /\ parsed = <<>>
    /\ pc = "parse"
    /\ tasks = <<>>
    /\ disk = File("missing", <<>>)
    /\ disk0 = File("missing", <<>>)
    /\ results = <<>>
    /\ idx = 0
    /\ out = NoOutcomes
    /\ upserted = <<>>
    /\ nread = 0
    /\ nwritten = 0

NextParse == Parse

SpecParse == InitParse /\ [][NextParse]_vars

\* ======================================================== the store claims
Ids(recs) == {recs[i].id : i \in 1..Len(recs)}
Records(recs) == {recs[i] : i \in 1..Len(recs)}
Count(recs, id) == Cardinality({i \in 1..Len(recs) : recs[i].id = id})

\* the last record upsert_result was called with for this id
LatestUpsert(id) ==
    upserted[Max({k \in 1..Len(upserted) : upserted[k].id = id})]

\* C1: at any time of a run, in memory and in the file, no two records share an
\* id; every id upserted in the run has exactly one record, which is the content
\* of the latest upsert for that id.
C1_OneRecordPerId ==
    /\ \A id \in Ids(results) : Count(results, id) = 1
    /\ \A id \in Ids(disk.recs) : Count(disk.recs, id) = 1
    /\ \A id \in Ids(upserted) :
          /\ Count(results, id) = 1
          /\ LatestUpsert(id) \in Records(results)

\* two upserts of one id with different content have happened, on top of a file
\* that already held that id, and the store was persisted
C1_Witness ==
    /\ pc = "done"
    /\ \E i, j \in 1..Len(upserted) :
          /\ i < j
          /\ upserted[i].id = upserted[j].id
          /\ upserted[i] # upserted[j]
          /\ upserted[i].id \in Ids(disk0.recs)

\* ids in order of first appearance, those of `known` left out
RECURSIVE FirstSeen(_, _)
FirstSeen(ids, known) ==
    IF ids = <<>> THEN <<>>
    ELSE IF Head(ids) \in known THEN FirstSeen(Tail(ids), known)
    ELSE <<Head(ids)>> \o FirstSeen(Tail(ids), known \cup {Head(ids)})

IdSeq(recs) == [i \in 1..Len(recs) |-> recs[i].id]

\* the records after those the file held are the ids new in the run, in the
\* order of their first upsert
AppendOrder ==
    IdSeq(SubSeq(results, Len(disk0.recs) + 1, Len(results)))
        = FirstSeen(IdSeq(upserted), Ids(disk0.recs))

\* C2: a step that upserts rec replaces the record of rec.id at its index and
\* changes nothing else, or appends rec at the end when the id is absent; the
\* ids new in the run stand after the loaded records in upsert order.
C2_UpsertFrame ==
    [][(pc = "agg" /\ pc' = "task") =>
        LET rec == Last(upserted')
            at == {i \in 1..Len(results) : results[i].id = rec.id}
        IN /\ IF at = {}
              THEN /\ Len(results') = Len(results) + 1
                   /\ results'[Len(results')] = rec
                   /\ \A j \in 1..Len(results) : results'[j] = results[j]
              ELSE /\ Len(results') = Len(results)
                   /\ results'[Min(at)] = rec
                   /\ \A j \in 1..Len(results) : j # Min(at) => results'[j] = results[j]
           /\ AppendOrder']_vars

\* a run replaced a record that stood after another one and appended a new id
C2_Witness ==
    /\ pc = "done"
    /\ Len(disk0.recs) = 2
    /\ Len(upserted) = 2
    /\ upserted[1].id = disk0.recs[2].id
    /\ upserted[2].id \notin Ids(disk0.recs)
    /\ disk.recs = <<disk0.recs[1], upserted[1], upserted[2]>>

Reverse(s) == [i \in 1..Len(s) |-> s[Len(s) + 1 - i]]

RECURSIVE UpsertAll(_, _)
UpsertAll(store, ts) ==
    IF ts = <<>> THEN store
    ELSE UpsertAll(IF Head(ts).blank THEN store
                   ELSE upsert_result(store, record_of(Head(ts), "now")),
                   Tail(ts))

DistinctTaskIds == \A i, j \in 1..Len(tasks) : tasks[i].id = tasks[j].id => i = j
RunRecords == {record_of(tasks[i], "now") : i \in {k \in 1..Len(tasks) : ~tasks[k].blank}}
Kept == {r \in Records(disk0.recs) : r.id \notin Ids(upserted)}
Persisted == pc = "done" /\ nwritten = 1

\* C3 as stated: the persisted store of a run on tasks with distinct ids is the
\* store the same tasks give when processed in the opposite order.
C3_AnyOrderSameStore ==
    (Persisted /\ DistinctTaskIds) => disk.recs = UpsertAll(disk0.recs, Reverse(tasks))

\* C3, amended: the persisted records are, as a set and one per id, the records
\* of the run's tasks and the stored records of the other ids, the stored ids
\* keep their positions, and that set is the one the opposite order gives; the
\* order of the appended ids is left to the processing order.
C3_AnyOrderSameRecords ==
    (Persisted /\ DistinctTaskIds) =>
        /\ disk.kind = "json"
        /\ Records(disk.recs) = Kept \cup RunRecords
        /\ Len(disk.recs) = Cardinality(Ids(disk0.recs) \cup Ids(upserted))
        /\ \A i \in 1..Len(disk0.recs) : disk.recs[i].id = disk0.recs[i].id
        /\ Records(disk.recs) = Records(UpsertAll(disk0.recs, Reverse(tasks)))

\* two tasks with new ids were processed on top of stored records, and the
\* opposite order would have persisted another list
C3_Witness ==
    /\ Persisted
    /\ DistinctTaskIds
    /\ Len(upserted) = 2
    /\ disk0.recs # <<>>
    /\ Ids(upserted) \cap Ids(disk0.recs) = {}
    /\ disk.recs # UpsertAll(disk0.recs, Reverse(tasks))

\* C4 as stated: every run that ends has read the backing store once.
C4_ReadOnceEveryRun == pc = "done" => nread = 1

\* C4, amended: the store is read at most once, not at all when the selection
\* is empty and before any task is processed otherwise; it is written at most
\* once, only after every selected task was processed; without a write the
\* file is what it was before the run.
C4_ReadFirstWriteLast ==
    /\ nread <= 1
    /\ nwritten <= 1
    /\ tasks = <<>> => (nread = 0 /\ nwritten = 0)
    /\ (tasks # <<>> /\ pc \notin {"start", "interrupted"}) => nread = 1
    /\ idx >= 1 => nread = 1
    /\ nwritten = 1 => (nread = 1 /\ idx = Len(tasks) + 1)
    /\ nwritten = 0 => disk = disk0
    /\ (pc = "done" /\ tasks # <<>>) => nwritten = 1

\* a run was interrupted while its last task was being processed, after it had
\* upserted a record in memory
C4_Witness ==
    /\ pc = "interrupted"
    /\ Len(tasks) = 2
    /\ idx = 2
    /\ out["human"].info = "OK"
    /\ upserted # <<>>
    /\ disk0.kind = "json"
    /\ disk = disk0

\* C8: no failure of a variant, a task or the store ends the run with an
\* exception.
C8_NeverAborts == pc # "aborted"

\* =================================================== the one-task claims
Built == tasks # <<>> /\ upserted # <<>>
TheTask == tasks[1]
TheRecord == upserted[1]

PlaceholderImages == {Some(<<"PLACEHOLDER">>), Some(<<"placeholder", "-v2">>)}
UnsetImages == {None, Some(<<>>)}
SoonStatuses == {Some("COMING_SOON"), Some("pending")}

\* C5: the classification of the record built: with both means, by comparing
\* them with eps; else COMING_SOON for a COMING_SOON/PENDING status or a
\* placeholder LLM image; else the task's prior classification, or UNKNOWN.
C5_Classification ==
    Built =>
        LET hm == out["human"].mean
            lm == out["llm"].mean
            soon == TheTask.status_llm \in SoonStatuses
                    \/ TheTask.llm_image \in PlaceholderImages
            got == TheRecord.llm_better
        IN /\ (hm # None /\ lm # None) =>
                 /\ Val(lm) + Eps < Val(hm) => got = "YES"
                 /\ Val(hm) + Eps < Val(lm) => got = "NO"
                 /\ (Val(lm) + Eps >= Val(hm) /\ Val(hm) + Eps >= Val(lm)) => got = "TIE"
           /\ ((hm = None \/ lm = None) /\ soon) => got = "COMING_SOON"
           /\ ((hm = None \/ lm = None) /\ ~soon) =>
                 got = IF TheTask.llm_better = None THEN "UNKNOWN"
                       ELSE Val(TheTask.llm_better)

\* both means are there and decide YES against a COMING_SOON status and a prior NO
C5_Witness ==
    /\ Built
    /\ pc = "done"
    /\ TheTask.status_llm = Some("COMING_SOON")
    /\ TheTask.llm_better = Some("NO")
    /\ out["human"].mean = Some(2)
    /\ out["llm"].mean = Some(0)
    /\ TheRecord.llm_better = "YES"

\* C6: with the LLM image unset or a placeholder, the LLM variant is not
\* executed, its outcome is 'skipped (placeholder)' with no metric, after_llm
\* is null and the classification is COMING_SOON.
C6_UnsetOrPlaceholderIsComingSoon ==
    (Built /\ TheTask.llm_image \in UnsetImages \cup PlaceholderImages) =>
        /\ out["llm"].cmd = None
        /\ out["llm"].info = "skipped (placeholder)"
        /\ out["llm"].mean = None
        /\ out["llm"].std = None
        /\ TheRecord.after_llm = None
        /\ TheRecord.llm_better = "COMING_SOON"

\* the condition under which C7 says improvement and speedup are null
C7_Missing(after) ==
    out["base"].mean = None \/ out[after].mean = None \/ out["base"].mean = Some(0)

\* C7 as stated: improvement and speedup of each after-variant are both null
\* when a mean is missing or the before mean is 0, both non-null otherwise,
\* and no division error is raised.
C7_SameNullness ==
    /\ pc # "aborted"
    /\ Built =>
          /\ C7_Missing("human") <=> TheRecord.human_improvement = None
          /\ C7_Missing("human") <=> TheRecord.speedup_human = None
          /\ C7_Missing("llm") <=> TheRecord.LLM_improvement = None
          /\ C7_Missing("llm") <=> TheRecord.speedup_llm = None

\* C7, amended: the improvement is null exactly when a mean is missing or the
\* before mean is 0, and is (after - before) * 100 / before otherwise; the
\* speedup is null in those cases and also when the after mean is 0, and is
\* before / after otherwise; no division error is raised (no template of these
\* tasks has a field render cannot fill, so nothing else can end the run).
C7_NullnessAndNoDivisionError ==
    /\ pc # "aborted"
    /\ Built =>
          \A after \in {"human", "llm"} :
              LET impr == IF after = "human" THEN TheRecord.human_improvement
                          ELSE TheRecord.LLM_improvement
                  sp == IF after = "human" THEN TheRecord.speedup_human
                        ELSE TheRecord.speedup_llm
                  bm == out["base"].mean
                  am == out[after].mean
              IN /\ C7_Missing(after) <=> impr = None
                 /\ (C7_Missing(after) \/ am = Some(0)) <=> sp = None
                 /\ impr # None =>
                       /\ Val(impr).num = (Val(am) - Val(bm)) * 100
                       /\ Val(impr).den = Val(bm)
                 /\ sp # None => (Val(sp).num = Val(bm) /\ Val(sp).den = Val(am))

\* an after mean of 0 over a before mean that is not 0
C7_Witness ==
    /\ Built
    /\ out["base"].mean = Some(2)
    /\ out["human"].mean = Some(0)
    /\ TheRecord.human_improvement # None
    /\ TheRecord.speedup_human = None

\* ================================================== the template claim
HumanRan == tasks # <<>> /\ out["human"] # NotRun

\* the stored template is one the guard of run_variant replaces
Replaced(stored) ==
    \/ stored = None
    \/ Val(stored) = <<>>
    \/ \E i \in 1..(Len(Val(stored)) - 1) :
          <<Val(stored)[i], Val(stored)[i + 1]>>
              \in {"chmod", "perf"} \X {"apply", "applyq"}
    \/ "applyq" \in {Val(stored)[i] : i \in 1..Len(Val(stored))}

BlockStart(s, a) ==
    /\ s[a].k = "start"
    /\ \E b \in (a + 1)..Len(s) : s[b].k = "end"
    /\ LET before == {j \in 1..(a - 1) : s[j].k \in {"start", "end"}}
       IN before = {} \/ s[Max(before)].k = "end"

\* the last report of kind k among positions lo..hi
LastReport(s, k, lo, hi) ==
    LET at == {i \in lo..hi : s[i].k = k}
    IN IF at = {} THEN None
       ELSE Some(s[Max(at)].lit.m * (IF s[Max(at)].lit.e = 0 THEN 1 ELSE 10))

Expected(s) ==
    LET startsAt == {a \in 1..Len(s) : BlockStart(s, a)}
        a == Max(startsAt)
        b == Min({j \in (a + 1)..Len(s) : s[j].k = "end"})
        lo == IF startsAt = {} THEN 1 ELSE a + 1
        hi == IF startsAt = {} THEN Len(s) ELSE b - 1
        inMean == LastReport(s, "mean", lo, hi)
        inStd == LastReport(s, "std", lo, hi)
        allMean == LastReport(s, "mean", 1, Len(s))
        allStd == LastReport(s, "std", 1, Len(s))
    IN IF inMean # None /\ inStd # None THEN <<inMean, inStd>>
       ELSE IF allMean # None /\ allStd # None THEN <<allMean, allStd>>
       ELSE <<None, None>>

\* C9: parse_mean_std returns the last mean and the last std of the last PERF
\* block when that block holds both, else the last mean and the last std of
\* the whole text, else (None, None); never one value without the other.
C9_LastBlockThenWholeText ==
    pc = "parsed" =>
        /\ parsed = Expected(text)
        /\ parsed[1] = None <=> parsed[2] = None

\* two blocks, each with a mean and a std: the values are those of the second
C9_Witness ==
    /\ pc = "parsed"
    /\ text = <<StartTok, MeanTok(Lit(1, 0)), StdTok(Lit(3, 0)), EndTok,
                StartTok, MeanTok(Lit(2, 1)), StdTok(Lit(4, 1)), EndTok>>
    /\ parsed = <<Some(20), Some(40)>>

====
